---- MODULE Spec2Model ----
(***************************************************************************)
(* Model of download.mjs: the argument parser, the interactive format      *)
(* prompt, the retry wrapper downloadOne and the self-refilling pump of    *)
(* run().  One action per event-loop turn of the program: JavaScript runs  *)
(* each turn to completion, so everything between two awaits is atomic.    *)
(***************************************************************************)
EXTENDS Integers, Sequences, FiniteSets, TLC

VARIABLES
    argv,       \* process.argv, fixed for the run
    fileData,   \* the lines of the --fromFile file (its content split on newlines)
    ioFault,    \* TRUE when ensureDir throws (an unexpected top-level fault)
    args,       \* the args object of parseArgs, shared by every job
    pc,         \* position of run(): start, awaitingChoice, resolved, draining, exited
    queue,      \* run's queue: positions of args.urls still waiting, in order
    active,     \* run's active counter
    failures,   \* run's failures list (locators)
    jobs,       \* per queue entry: position of its downloadOne call chain
    exitCode,   \* the process exit status, meaningful once pc = "exited"
    prompts,    \* number of times the quality menu was printed
    linesRead   \* number of lines read from stdin by askQuestion

vars == <<argv, fileData, ioFault, args, pc, queue, active, failures, jobs,
          exitCode, prompts, linesRead>>

-----------------------------------------------------------------------------
(* Bounds of the model *)

MaxUrls == 2        \* positional locators on the command line
MaxLines == 1       \* lines of the batch file
MaxConcurrent == 2  \* largest value given to --concurrent
MaxRetriesArg == 1  \* largest value given to --retries

(* Program constants *)

DEFAULT_CONCURRENCY == 2
MAX_RETRIES == 2
BACKOFF_MS == 1500
EXIT_OK == 0
EXIT_USAGE == 1
EXIT_FAILURES == 2

DEFAULT_OUTPUT_TEMPLATE == "%(uploader)s/%(title).200Bs-%(id)s.%(ext)s"
DEFAULT_SUB_LANG == "en"
DEFAULT_FORMAT_FALLBACK == "bestvideo[ext=mp4][height<=1080]+bestaudio[ext=m4a]/best[ext=mp4]"
FORMAT_1080 == "bestvideo[ext=mp4][height<=1080]+bestaudio[ext=m4a]/best[ext=mp4]"
FORMAT_720 == "bestvideo[ext=mp4][height<=720]+bestaudio[ext=m4a]/best[ext=mp4]"
FORMAT_480 == "bestvideo[ext=mp4][height<=480]+bestaudio[ext=m4a]/best[ext=mp4]"

Null == "null"
Undefined == "undefined"

-----------------------------------------------------------------------------
(* Strings: the conversions the program applies to its textual inputs *)

\* Number(s) for the decimal tokens the model puts on the command line
NumberOf(s) ==
    CASE s = "-1" -> 0 - 1
      [] s = "0" -> 0
      [] s = "1" -> 1
      [] s = "2" -> 2
      [] s = "3" -> 3
      [] s = "4" -> 4
      [] s = "5" -> 5

\* the token a number is written as on the command line
NumToken(n) ==
    CASE n = 0 - 1 -> "-1"
      [] n = 0 -> "0"
      [] n = 1 -> "1"
      [] n = 2 -> "2"
      [] n = 3 -> "3"
      [] n = 4 -> "4"
      [] n = 5 -> "5"

\* String.prototype.trim on the strings of the model
Trim(s) ==
    CASE s = " " -> ""
      [] s = "  " -> ""
      [] s = " 2 " -> "2"
      [] s = " B" -> "B"
      [] s = "B " -> "B"
      [] OTHER -> s

\* v.startsWith("-") on the tokens of the model
StartsWithDash(v) ==
    v \in {"--format", "--audio", "--audioFormat", "--outDir", "--outTemplate",
           "--noPlaylist", "--rateLimit", "--retries", "--subs", "--lang",
           "--noEmbedSubs", "--fromFile", "--cookies", "--proxy", "--concurrent",
           "--noMtime", "--keepMtime", "--noGeoBypass", "--geo", "--extractorArgs",
           "--verbose", "--update", "--noPrompt", "--bogus", "-x", "-1"}

\* Boolean(s) of a string: the empty string is falsy
Truthy(s) == s # ""

RECURSIVE FilterTruthy(_)
FilterTruthy(ss) ==
    IF ss = <<>> THEN <<>>
    ELSE IF Truthy(Head(ss)) THEN <<Head(ss)>> \o FilterTruthy(Tail(ss))
    ELSE FilterTruthy(Tail(ss))

\* data.split(/\r?\n/).map(s => s.trim()).filter(Boolean)
BatchLines(data) == FilterTruthy([i \in 1..Len(data) |-> Trim(data[i])])

-----------------------------------------------------------------------------
(* parseArgs *)

DefaultArgs ==
    [urls |-> <<>>,
     format |-> Null,
     formatProvided |-> FALSE,
     audioOnly |-> FALSE,
     audioFormat |-> "m4a",
     outDir |-> "./downloads",
     outTemplate |-> DEFAULT_OUTPUT_TEMPLATE,
     playlist |-> TRUE,
     rateLimit |-> Null,
     retries |-> MAX_RETRIES,
     subs |-> FALSE,
     subsLang |-> DEFAULT_SUB_LANG,
     subsEmbed |-> TRUE,
     fromFile |-> Null,
     cookies |-> Null,
     proxy |-> Null,
     concurrent |-> DEFAULT_CONCURRENCY,
     noMtime |-> TRUE,
     geoBypass |-> TRUE,
     extractorArgs |-> Null,
     geoBypassCountry |-> Null,
     verbose |-> FALSE,
     update |-> FALSE,
     noPrompt |-> FALSE]

\* it.next().value: the next token, undefined past the end
NextValue(av, i) == IF i + 1 <= Len(av) THEN av[i + 1] ELSE Undefined

\* the for/switch loop over the tokens; the result carries the args object
\* and whether process.exit(1) was called on an unknown option
RECURSIVE ParseLoop(_, _, _)
ParseLoop(av, i, a) ==
    IF i > Len(av) THEN [args |-> a, exit |-> FALSE]
    ELSE LET v == av[i] IN
      CASE v = "--format" ->
             ParseLoop(av, i + 2, [a EXCEPT !.format = NextValue(av, i), !.formatProvided = TRUE])
        [] v = "--audio" -> ParseLoop(av, i + 1, [a EXCEPT !.audioOnly = TRUE])
        [] v = "--audioFormat" -> ParseLoop(av, i + 2, [a EXCEPT !.audioFormat = NextValue(av, i)])
        [] v = "--outDir" -> ParseLoop(av, i + 2, [a EXCEPT !.outDir = NextValue(av, i)])
        [] v = "--outTemplate" -> ParseLoop(av, i + 2, [a EXCEPT !.outTemplate = NextValue(av, i)])
        [] v = "--noPlaylist" -> ParseLoop(av, i + 1, [a EXCEPT !.playlist = FALSE])
        [] v = "--rateLimit" -> ParseLoop(av, i + 2, [a EXCEPT !.rateLimit = NextValue(av, i)])
        [] v = "--retries" -> ParseLoop(av, i + 2, [a EXCEPT !.retries = NumberOf(NextValue(av, i))])
        [] v = "--subs" -> ParseLoop(av, i + 1, [a EXCEPT !.subs = TRUE])
        [] v = "--lang" -> ParseLoop(av, i + 2, [a EXCEPT !.subsLang = NextValue(av, i)])
        [] v = "--noEmbedSubs" -> ParseLoop(av, i + 1, [a EXCEPT !.subsEmbed = FALSE])
        [] v = "--fromFile" -> ParseLoop(av, i + 2, [a EXCEPT !.fromFile = NextValue(av, i)])
        [] v = "--cookies" -> ParseLoop(av, i + 2, [a EXCEPT !.cookies = NextValue(av, i)])
        [] v = "--proxy" -> ParseLoop(av, i + 2, [a EXCEPT !.proxy = NextValue(av, i)])
        [] v = "--concurrent" -> ParseLoop(av, i + 2, [a EXCEPT !.concurrent = NumberOf(NextValue(av, i))])
        [] v = "--noMtime" -> ParseLoop(av, i + 1, [a EXCEPT !.noMtime = TRUE])
        [] v = "--keepMtime" -> ParseLoop(av, i + 1, [a EXCEPT !.noMtime = FALSE])
        [] v = "--noGeoBypass" -> ParseLoop(av, i + 1, [a EXCEPT !.geoBypass = FALSE])
        [] v = "--geo" -> ParseLoop(av, i + 2, [a EXCEPT !.geoBypassCountry = NextValue(av, i)])
        [] v = "--extractorArgs" -> ParseLoop(av, i + 2, [a EXCEPT !.extractorArgs = NextValue(av, i)])
        [] v = "--verbose" -> ParseLoop(av, i + 1, [a EXCEPT !.verbose = TRUE])
        [] v = "--update" -> ParseLoop(av, i + 1, [a EXCEPT !.update = TRUE])
        [] v = "--noPrompt" -> ParseLoop(av, i + 1, [a EXCEPT !.noPrompt = TRUE])
        [] OTHER ->
             IF StartsWithDash(v) THEN [args |-> a, exit |-> TRUE]
             ELSE ParseLoop(av, i + 1, [a EXCEPT !.urls = Append(@, v)])

\* parseArgs without its test for an empty locator list
ParseArgsNoUsageExit(av, data) ==
    LET looped == ParseLoop(av, 3, DefaultArgs)
        a == looped.args
    IN  IF looped.exit THEN looped
        ELSE [args |-> IF a.fromFile # Null
                       THEN [a EXCEPT !.urls = @ \o BatchLines(data)]
                       ELSE a,
              exit |-> FALSE]

\* the whole of parseArgs: the loop from the third token, the batch file,
\* the usage exit when no locator was collected
ParseArgs(av, data) ==
    LET looped == ParseLoop(av, 3, DefaultArgs)
        a == looped.args
        withFile == IF a.fromFile # Null
                    THEN [a EXCEPT !.urls = @ \o BatchLines(data)]
                    ELSE a
    IN  IF looped.exit THEN looped
        ELSE [args |-> withFile, exit |-> Len(withFile.urls) = 0]

-----------------------------------------------------------------------------
(* chooseFormatInteractive *)

\* the early return testing --noPrompt and --format only
SkipsPromptIgnoringAudio(a) == a.noPrompt \/ a.formatProvided

\* the guard of the early return: no menu when any of the three is set
SkipsPrompt(a) == a.noPrompt \/ a.formatProvided \/ a.audioOnly

\* (await askQuestion(...)).trim() || "1"
ChoiceOf(line) == IF Truthy(Trim(line)) THEN Trim(line) ELSE "1"

\* the switch on the choice
ApplyChoice(a, choice) ==
    CASE choice = "1" -> [a EXCEPT !.format = FORMAT_1080]
      [] choice = "2" -> [a EXCEPT !.format = FORMAT_720]
      [] choice = "3" -> [a EXCEPT !.format = FORMAT_480]
      [] choice = "4" -> [a EXCEPT !.audioOnly = TRUE]
      [] OTHER -> [a EXCEPT !.format = FORMAT_1080]

-----------------------------------------------------------------------------
(* downloadOne: the option bag handed to the external downloader *)

\* a value the conditional spreads treat as absent: null, undefined, ""
Falsy(v) == v \in {Null, Undefined, ""}

\* path.join(dir, template): the segments joined, a leading "./" dropped
PathJoin(dir, template) ==
    (IF dir = "./downloads" THEN "downloads" ELSE dir) \o "/" \o template

\* a key of the bag present only under a condition: ...(c ? { k: v } : {})
When(c, bag) == IF c THEN bag ELSE <<>>

\* an object literal built of spreads: later keys are added to the earlier ones
RECURSIVE Spread(_)
Spread(parts) ==
    IF parts = <<>> THEN <<>>
    ELSE Spread(Tail(parts)) @@ Head(parts)

\* a selector that prefers --format over --audio when both are given
SelectorPartFormatFirst(a) ==
    IF a.formatProvided \/ ~a.audioOnly
    THEN [format |-> IF Falsy(a.format) THEN DEFAULT_FORMAT_FALLBACK ELSE a.format]
    ELSE [extractAudio |-> TRUE, audioFormat |-> a.audioFormat, audioQuality |-> "0"]

\* format / audio: audio extraction when audioOnly, else the format selector
SelectorPart(a) ==
    IF a.audioOnly
    THEN [extractAudio |-> TRUE, audioFormat |-> a.audioFormat, audioQuality |-> "0"]
    ELSE [format |-> IF Falsy(a.format) THEN DEFAULT_FORMAT_FALLBACK ELSE a.format]

\* geo-bypass: the enable or the disable flag, and the country code when set
GeoPart(a) ==
    Spread(<<IF a.geoBypass THEN [geoBypass |-> TRUE] ELSE [noGeoBypass |-> TRUE],
             When(~Falsy(a.geoBypassCountry), [geoBypassCountry |-> a.geoBypassCountry])>>)

\* the ytdlpArgs object of downloadOne. The parts of the literal are listed
\* last one first: f @@ g keeps f's value on a shared key, as the later spread
\* of an object literal does
YtdlpArgs(a) ==
    [newline |-> TRUE]
    @@ (IF a.update THEN [update |-> TRUE] ELSE "no-update" :> TRUE)
    @@ When(~Falsy(a.extractorArgs), [extractorArgs |-> a.extractorArgs])
    @@ GeoPart(a)
    @@ [addHeader |-> <<"User-Agent: Mozilla/5.0", "Accept-Language: en-US,en;q=0.9">>]
    @@ When(~Falsy(a.proxy), [proxy |-> a.proxy])
    @@ When(~Falsy(a.cookies), [cookies |-> a.cookies])
    @@ When(~Falsy(a.rateLimit), [limitRate |-> a.rateLimit])
    @@ When(a.subs, Spread(<<[writeauto |-> TRUE, subLangs |-> a.subsLang,
                               subFormat |-> "srt/best"],
                              When(a.subsEmbed, [embedSubs |-> TRUE])>>))
    @@ (IF a.playlist THEN "yes-playlist" :> TRUE ELSE "no-playlist" :> TRUE)
    @@ ("fragment-retries" :> 10) @@ [retries |-> 5] @@ ("concurrent-fragments" :> 4)
    @@ When(a.noMtime, "no-mtime" :> TRUE)
    @@ [output |-> PathJoin(a.outDir, a.outTemplate)]
    @@ SelectorPart(a)

-----------------------------------------------------------------------------
(* downloadOne: one record per queue entry *)

\* st: queued (still in the queue), calling (ytdl in flight), backoff (retry
\* timer pending), ok (resolved), failed (rejected after the last attempt)
\* attempt: the attempt parameter of the innermost downloadOne call
\* calls: ytdl invocations made; hist: how each of them ended
\* starts: downloadOne calls made by pump for the entry
\* outcomes: terminal outcomes the entry has produced; delay: pending timer, ms
\* bags: the option bag of each ytdl invocation; inflight: ytdl calls not yet
\* returned; waits: the delays of the retry timers set so far
\* order: rank of the entry's first invocation among all first invocations
QueuedJob ==
    [st |-> "queued", attempt |-> 0, calls |-> 0, hist |-> <<>>,
     starts |-> 0, outcomes |-> 0, delay |-> 0,
     bags |-> <<>>, inflight |-> 0, waits |-> <<>>, order |-> 0]

\* downloadOne up to its await: the external downloader is invoked
InvokeDownloader(j, attempt) ==
    [j EXCEPT !.st = "calling", !.attempt = attempt, !.calls = @ + 1, !.delay = 0,
              !.bags = Append(@, YtdlpArgs(args)), !.inflight = @ + 1]

\* the retry test written with < in place of <=
ShouldRetryStrict(attempt, retries) == attempt < retries

\* if (attempt <= args.retries)
ShouldRetry(attempt, retries) == attempt <= retries

\* a retry delay that does not grow with the attempt number
BackoffDelayConstant(attempt) == BACKOFF_MS

\* the delay of the retry timer
BackoffDelay(attempt) == BACKOFF_MS * attempt

\* a success path that falls through to one more invocation
OnResolveCallsAgain(j) ==
    [j EXCEPT !.st = "ok", !.hist = Append(@, "ok"), !.outcomes = @ + 1,
              !.calls = @ + 1, !.inflight = @ - 1]

\* the try branch after the await: the promise of downloadOne resolves
OnResolve(j) ==
    [j EXCEPT !.st = "ok", !.hist = Append(@, "ok"), !.outcomes = @ + 1,
              !.inflight = @ - 1]

\* a catch block that retries at once, without awaiting the timer
OnRejectRetriesAtOnce(j, retries) ==
    IF ShouldRetry(j.attempt, retries)
    THEN [j EXCEPT !.st = "calling", !.hist = Append(@, "fail"),
                   !.attempt = @ + 1, !.calls = @ + 1,
                   !.bags = Append(@, YtdlpArgs(args))]
    ELSE [j EXCEPT !.st = "failed", !.hist = Append(@, "fail"), !.outcomes = @ + 1,
                   !.inflight = @ - 1]

\* the catch block: wait and retry, or rethrow to the caller
OnReject(j, retries) ==
    IF ShouldRetry(j.attempt, retries)
    THEN [j EXCEPT !.st = "backoff", !.hist = Append(@, "fail"),
                   !.delay = BackoffDelay(j.attempt),
                   !.waits = Append(@, BackoffDelay(j.attempt)),
                   !.inflight = @ - 1]
    ELSE [j EXCEPT !.st = "failed", !.hist = Append(@, "fail"), !.outcomes = @ + 1,
                   !.inflight = @ - 1]

-----------------------------------------------------------------------------
(* pump: the scheduler state is the triple queue, active, jobs *)

\* admission reading queue[0] without removing it
\* the number of entries whose first invocation was already made
StartedCount(js) == Cardinality({k \in DOMAIN js : js[k].starts > 0})

AdmitNoShift(s) ==
    LET i == Head(s.queue) IN
    [queue |-> s.queue,
     active |-> s.active + 1,
     jobs |-> [s.jobs EXCEPT ![i] =
                 InvokeDownloader([@ EXCEPT !.starts = @ + 1,
                                            !.order = StartedCount(s.jobs) + 1], 1)]]

\* admission with queue.pop() in place of queue.shift()
AdmitFromBack(s) ==
    LET i == s.queue[Len(s.queue)] IN
    [queue |-> SubSeq(s.queue, 1, Len(s.queue) - 1),
     active |-> s.active + 1,
     jobs |-> [s.jobs EXCEPT ![i] =
                 InvokeDownloader([@ EXCEPT !.starts = @ + 1,
                                            !.order = StartedCount(s.jobs) + 1], 1)]]

\* queue.shift(); active += 1; downloadOne(url, args)
Admit(s) ==
    LET i == Head(s.queue) IN
    [queue |-> Tail(s.queue),
     active |-> s.active + 1,
     jobs |-> [s.jobs EXCEPT ![i] =
                 InvokeDownloader([@ EXCEPT !.starts = @ + 1,
                                            !.order = StartedCount(s.jobs) + 1], 1)]]

\* the refill loop written with <= in place of <
RECURSIVE PumpLoopOffByOne(_, _)
PumpLoopOffByOne(s, concurrent) ==
    IF s.active <= concurrent /\ Len(s.queue) > 0
    THEN PumpLoopOffByOne(Admit(s), concurrent)
    ELSE s

\* while (active < args.concurrent && queue.length > 0)
RECURSIVE PumpLoop(_, _)
PumpLoop(s, concurrent) ==
    IF s.active < concurrent /\ Len(s.queue) > 0
    THEN PumpLoop(Admit(s), concurrent)
    ELSE s

\* a pump without its while loop: one admission per call
PumpSingle(s, concurrent) ==
    IF Len(s.queue) = 0 \/ s.active >= concurrent
    THEN s
    ELSE Admit(s)

\* if (queue.length === 0 || active >= args.concurrent) return; then admit
Pump(s, concurrent) ==
    IF Len(s.queue) = 0 \/ s.active >= concurrent
    THEN s
    ELSE PumpLoop(Admit(s), concurrent)

\* a completion handler that frees the slot without calling pump()
FinallyNoPump(s, concurrent) == [s EXCEPT !.active = @ - 1]

\* .finally(() => { active -= 1; pump(); })
Finally(s, concurrent) == Pump([s EXCEPT !.active = @ - 1], concurrent)

\* a drain loop that waits for the queue only
DrainingQueueOnly(a, q) == Len(q) > 0

\* while (active > 0 || queue.length > 0)
Draining(a, q) == a > 0 \/ Len(q) > 0

\* a report that never calls process.exit(2)
ReportStatusAlwaysOk(f) == EXIT_OK

\* the status run() ends with once drained
ReportStatus(f) == IF Len(f) > 0 THEN EXIT_FAILURES ELSE EXIT_OK

-----------------------------------------------------------------------------
(* Inputs *)

Locators == {"A"}
RawLines == {"", " B"}
ChoiceLines == {"", "1", "2", "3", "4", " 2 ", "x"}

RECURSIVE SeqsUpTo(_, _)
SeqsUpTo(S, n) ==
    IF n = 0 THEN {<<>>}
    ELSE LET shorter == SeqsUpTo(S, n - 1) IN
         shorter \cup {Append(q, x) : q \in {r \in shorter : Len(r) = n - 1}, x \in S}

FormatFlags == {<<>>, <<"--format", "X">>}
AudioFlags == {<<>>, <<"--audio">>}
NoPromptFlags == {<<>>, <<"--noPrompt">>}
BogusFlags == {<<>>, <<"--bogus">>}
FromFileFlags == {<<>>, <<"--fromFile", "urls.txt">>}
ConcurrentValues == {<<"--concurrent", NumToken(n)>> : n \in (0 - 1)..MaxConcurrent}
RetriesValues == {<<"--retries", NumToken(n)>> : n \in 0..MaxRetriesArg}
ConcurrentFlags == {<<>>} \cup ConcurrentValues
RetriesFlags == {<<>>} \cup RetriesValues

\* command lines that vary every flag, defaults included, with at most one locator
OptionArgvs ==
    {<<"node", "download.mjs">> \o f \o au \o np \o c \o r \o u \o b :
        f \in FormatFlags, au \in AudioFlags, np \in NoPromptFlags,
        c \in ConcurrentFlags, r \in RetriesFlags,
        u \in SeqsUpTo(Locators, 1), b \in BogusFlags}

NoGeoBypassFlags == {<<>>, <<"--noGeoBypass">>}
GeoFlags == {<<>>, <<"--geo", "AU">>}

\* command lines that vary the geo flags
GeoArgvs ==
    {<<"node", "download.mjs", "--noPrompt">> \o ng \o g \o <<"A">> :
        ng \in NoGeoBypassFlags, g \in GeoFlags}

\* command lines that vary the work: the locators, the batch file, the limits;
\* the batch file is named before the positional locators
BatchArgvs ==
    {<<"node", "download.mjs", "--noPrompt">> \o c \o r \o ff \o u :
        c \in ConcurrentValues, r \in RetriesValues,
        u \in SeqsUpTo(Locators, MaxUrls), ff \in FromFileFlags}

ArgvSet == OptionArgvs \cup BatchArgvs \cup GeoArgvs

FileSet == SeqsUpTo(RawLines, MaxLines) \ {<<>>}

HasFromFile(av) == \E i \in 1..Len(av) : av[i] = "--fromFile"

-----------------------------------------------------------------------------
(* The program *)

Init ==
    /\ argv \in ArgvSet
    /\ fileData \in IF HasFromFile(argv) THEN FileSet ELSE {<<"">>}
    /\ ioFault \in BOOLEAN
    /\ args = DefaultArgs
    /\ pc = "start"
    /\ queue = <<>>
    /\ active = 0
    /\ failures = <<>>
    /\ jobs = <<>>
    /\ exitCode = EXIT_OK
    /\ prompts = 0
    /\ linesRead = 0

\* run() from its first line to its first await: parseArgs, ensureDir and
\* the synchronous part of chooseFormatInteractive
Start ==
    /\ pc = "start"
    /\ LET parsed == ParseArgs(argv, fileData) IN
       IF parsed.exit
       THEN /\ pc' = "exited"
            /\ exitCode' = EXIT_USAGE
            /\ UNCHANGED <<args, prompts>>
       ELSE IF ioFault
       THEN \* ensureDir throws: run() rejects, the top-level catch exits
            /\ pc' = "exited"
            /\ exitCode' = EXIT_USAGE
            /\ args' = parsed.args
            /\ UNCHANGED prompts
       ELSE /\ args' = parsed.args
            /\ IF SkipsPrompt(parsed.args)
               THEN pc' = "resolved" /\ UNCHANGED prompts
               ELSE pc' = "awaitingChoice" /\ prompts' = prompts + 1
            /\ UNCHANGED exitCode
    /\ UNCHANGED <<argv, fileData, ioFault, queue, active, failures, jobs, linesRead>>

\* the readline callback: one line answers the menu
ReadChoice ==
    /\ pc = "awaitingChoice"
    /\ \E line \in ChoiceLines :
         args' = ApplyChoice(args, ChoiceOf(line))
    /\ linesRead' = linesRead + 1
    /\ pc' = "resolved"
    /\ UNCHANGED <<argv, fileData, ioFault, queue, active, failures, jobs, exitCode, prompts>>

\* run() after chooseFormatInteractive: build the queue, the first pump(),
\* the first test of the drain loop
InitialPump ==
    /\ pc = "resolved"
    /\ LET n == Len(args.urls)
           s0 == [queue |-> [i \in 1..n |-> i], active |-> 0,
                  jobs |-> [i \in 1..n |-> QueuedJob]]
           s1 == Pump(s0, args.concurrent)
       IN  /\ queue' = s1.queue
           /\ active' = s1.active
           /\ jobs' = s1.jobs
           /\ failures' = <<>>
           /\ IF Draining(s1.active, s1.queue)
              THEN pc' = "draining" /\ UNCHANGED exitCode
              ELSE pc' = "exited" /\ exitCode' = ReportStatus(<<>>)
    /\ UNCHANGED <<argv, fileData, ioFault, args, prompts, linesRead>>

Running == pc = "draining"

\* the external downloader of entry i exits with success
AttemptSucceeds(i) ==
    /\ Running
    /\ i \in DOMAIN jobs
    /\ jobs[i].st = "calling"
    /\ LET s1 == Finally([queue |-> queue, active |-> active,
                          jobs |-> [jobs EXCEPT ![i] = OnResolve(@)]], args.concurrent)
       IN  /\ queue' = s1.queue
           /\ active' = s1.active
           /\ jobs' = s1.jobs
    /\ UNCHANGED <<argv, fileData, ioFault, args, pc, failures, exitCode, prompts, linesRead>>

\* a job chain without .catch: the last rejection is unhandled and ends the
\* process with status 1
AttemptFailsUncaught(i) ==
    /\ Running
    /\ i \in DOMAIN jobs
    /\ jobs[i].st = "calling"
    /\ LET j == OnReject(jobs[i], args.retries) IN
       /\ jobs' = [jobs EXCEPT ![i] = j]
       /\ IF j.st = "backoff"
          THEN UNCHANGED <<pc, exitCode>>
          ELSE pc' = "exited" /\ exitCode' = EXIT_USAGE
    /\ UNCHANGED <<argv, fileData, ioFault, args, queue, active, failures,
                   prompts, linesRead>>

\* a chain that frees its slot and refills at every failed attempt
AttemptFailsFreesSlotOnRetry(i) ==
    /\ Running
    /\ i \in DOMAIN jobs
    /\ jobs[i].st = "calling"
    /\ LET j == OnReject(jobs[i], args.retries)
           s1 == Finally([queue |-> queue, active |-> active,
                          jobs |-> [jobs EXCEPT ![i] = j]], args.concurrent)
       IN  /\ failures' = IF j.st = "failed" THEN Append(failures, args.urls[i]) ELSE failures
           /\ queue' = s1.queue
           /\ active' = s1.active
           /\ jobs' = s1.jobs
    /\ UNCHANGED <<argv, fileData, ioFault, args, pc, exitCode, prompts, linesRead>>

\* a chain that records the locator at every failed attempt
AttemptFailsRecordsEveryAttempt(i) ==
    /\ Running
    /\ i \in DOMAIN jobs
    /\ jobs[i].st = "calling"
    /\ LET j == OnReject(jobs[i], args.retries) IN
       IF j.st = "backoff"
       THEN /\ jobs' = [jobs EXCEPT ![i] = j]
            /\ failures' = Append(failures, args.urls[i])
            /\ UNCHANGED <<queue, active>>
       ELSE LET s1 == Finally([queue |-> queue, active |-> active,
                               jobs |-> [jobs EXCEPT ![i] = j]], args.concurrent)
            IN  /\ failures' = Append(failures, args.urls[i])
                /\ queue' = s1.queue
                /\ active' = s1.active
                /\ jobs' = s1.jobs
    /\ UNCHANGED <<argv, fileData, ioFault, args, pc, exitCode, prompts, linesRead>>

\* the external downloader of entry i fails: retry later, or give up
AttemptFails(i) ==
    /\ Running
    /\ i \in DOMAIN jobs
    /\ jobs[i].st = "calling"
    /\ LET j == OnReject(jobs[i], args.retries) IN
       IF j.st = "backoff"
       THEN /\ jobs' = [jobs EXCEPT ![i] = j]
            /\ UNCHANGED <<queue, active, failures>>
       ELSE \* .catch(() => failures.push(url)) then .finally
            LET s1 == Finally([queue |-> queue, active |-> active,
                               jobs |-> [jobs EXCEPT ![i] = j]], args.concurrent)
            IN  /\ failures' = Append(failures, args.urls[i])
                /\ queue' = s1.queue
                /\ active' = s1.active
                /\ jobs' = s1.jobs
    /\ UNCHANGED <<argv, fileData, ioFault, args, pc, exitCode, prompts, linesRead>>

\* a retry that switches the shared configuration to verbose output
RetryTimerFiresConsumesRetry(i) ==
    /\ Running
    /\ i \in DOMAIN jobs
    /\ jobs[i].st = "backoff"
    /\ jobs' = [jobs EXCEPT ![i] = InvokeDownloader(@, @.attempt + 1)]
    /\ args' = [args EXCEPT !.verbose = TRUE]
    /\ UNCHANGED <<argv, fileData, ioFault, pc, queue, active, failures,
                   exitCode, prompts, linesRead>>

\* the backoff timer of entry i fires: return downloadOne(url, args, attempt + 1)
RetryTimerFires(i) ==
    /\ Running
    /\ i \in DOMAIN jobs
    /\ jobs[i].st = "backoff"
    /\ jobs' = [jobs EXCEPT ![i] = InvokeDownloader(@, @.attempt + 1)]
    /\ UNCHANGED <<argv, fileData, ioFault, args, pc, queue, active, failures,
                   exitCode, prompts, linesRead>>

\* the 120 ms timer of the drain loop fires and the loop tests its condition:
\* sleep again, or report and exit
DrainTick ==
    /\ pc = "draining"
    /\ IF Draining(active, queue)
       THEN UNCHANGED <<pc, exitCode>>
       ELSE pc' = "exited" /\ exitCode' = ReportStatus(failures)
    /\ UNCHANGED <<argv, fileData, ioFault, args, queue, active, failures, jobs,
                   prompts, linesRead>>

Next ==
    \/ Start
    \/ ReadChoice
    \/ InitialPump
    \/ \E i \in DOMAIN jobs : AttemptSucceeds(i)
    \/ \E i \in DOMAIN jobs : AttemptFails(i)
    \/ \E i \in DOMAIN jobs : RetryTimerFires(i)
    \/ DrainTick

Spec == Init /\ [][Next]_vars

\* every external downloader call returns, every timer fires
MaxJobs == MaxUrls + MaxLines

Fairness ==
    /\ WF_vars(Start)
    /\ WF_vars(ReadChoice)
    /\ WF_vars(InitialPump)
    /\ \A i \in 1..MaxJobs : WF_vars(AttemptSucceeds(i) \/ AttemptFails(i))
    /\ \A i \in 1..MaxJobs : WF_vars(RetryTimerFires(i))
    /\ WF_vars(DrainTick)

FairSpec == Spec /\ Fairness

-----------------------------------------------------------------------------
(* Vocabulary of the properties *)

Jobs == DOMAIN jobs
InFlight == {i \in Jobs : jobs[i].st \in {"calling", "backoff"}}
Finished == {i \in Jobs : jobs[i].st \in {"ok", "failed"}}
Failed == {i \in Jobs : jobs[i].st = "failed"}
Succeeded == {i \in Jobs : jobs[i].st = "ok"}
Pumped == jobs # <<>>
Reported == pc = "exited" /\ Pumped
AllFail(h) == \A k \in 1..Len(h) : h[k] = "fail"
HasFlag(f) == \E k \in 3..Len(argv) : argv[k] = f
QueueSet == {queue[k] : k \in 1..Len(queue)}

-----------------------------------------------------------------------------
(* C1: with a concurrency limit C >= 1, the active counter and the number of
   jobs admitted and not yet at their terminal outcome never exceed C *)
C1_ActiveNeverExceedsLimit ==
    args.concurrent >= 1 =>
        /\ active <= args.concurrent
        /\ Cardinality(InFlight) <= args.concurrent

\* the limit binds: it is reached while locators still wait, after a completion
C1_Witness ==
    /\ args.concurrent >= 1
    /\ active = args.concurrent
    /\ Len(queue) > 0
    /\ Finished # {}

(* C2: every queue entry is popped exactly once and produces exactly one
   terminal outcome; |queue| + in-flight + finished = N in every state, and
   at completion all N entries are finished *)
C2_EveryEntryExactlyOnce ==
    Pumped =>
        /\ Len(queue) + Cardinality(InFlight) + Cardinality(Finished) = Len(args.urls)
        /\ Cardinality(QueueSet) = Len(queue)
        /\ \A i \in Jobs :
             /\ jobs[i].st = "queued" <=> i \in QueueSet
             /\ jobs[i].starts = (IF i \in QueueSet THEN 0 ELSE 1)
             /\ jobs[i].outcomes = (IF i \in Finished THEN 1 ELSE 0)
        /\ pc = "exited" => Finished = Jobs

\* completion declared for a list with a duplicate locator, more entries than slots
C2_Witness ==
    /\ Reported
    /\ Len(args.urls) >= 3
    /\ args.urls[1] = args.urls[2]
    /\ args.concurrent = 1
    /\ Failed # {} /\ Succeeded # {}

(* C3: a job whose every call fails invokes the external downloader exactly
   retries + 1 times and then ends in Failure, its rejection recorded by the
   scheduler's catch handler *)
C3_AlwaysFailingMakesRetriesPlusOneCalls ==
    /\ \A i \in Jobs :
         /\ jobs[i].st = "failed" => AllFail(jobs[i].hist)
         /\ AllFail(jobs[i].hist) =>
              /\ jobs[i].calls <= args.retries + 1
              /\ jobs[i].st = "failed" <=> Len(jobs[i].hist) = args.retries + 1
              /\ jobs[i].st = "failed" =>
                   jobs[i].calls = args.retries + 1 /\ jobs[i].outcomes = 1
    /\ Len(failures) = Cardinality(Failed)

\* a job that failed after the default two retries
C3_Witness ==
    \E i \in Jobs :
        /\ jobs[i].st = "failed"
        /\ args.retries = MAX_RETRIES
        /\ jobs[i].calls = MAX_RETRIES + 1

(* C4: a job whose call first succeeds on attempt k <= retries + 1 makes
   exactly k calls, none after the successful one, and ends in Success without
   an entry in the failure list *)
C4_SuccessOnAttemptKMakesKCalls ==
    /\ \A i \in Jobs :
         /\ \A k \in 1..Len(jobs[i].hist) :
              (jobs[i].hist[k] = "ok" /\ k <= args.retries + 1) =>
                  /\ jobs[i].st = "ok"
                  /\ jobs[i].calls = k
                  /\ Len(jobs[i].hist) = k
                  /\ AllFail(SubSeq(jobs[i].hist, 1, k - 1))
         /\ jobs[i].st = "ok" =>
              /\ jobs[i].hist[Len(jobs[i].hist)] = "ok"
              /\ jobs[i].calls <= args.retries + 1
              /\ jobs[i].outcomes = 1
    /\ Len(failures) + Cardinality(Succeeded) = Cardinality(Finished)

\* a job that succeeded on its last permitted attempt
C4_Witness ==
    \E i \in Jobs :
        /\ jobs[i].st = "ok"
        /\ args.retries >= 1
        /\ jobs[i].calls = args.retries + 1

(* C5: when scheduling completes the exit status is 2 iff some job ended in
   Failure and 0 iff every job ended in Success; status 1 comes only from a
   configuration error or a top-level fault, never from a job failure *)
C5_ExitStatus ==
    pc = "exited" =>
        /\ exitCode \in {EXIT_OK, EXIT_USAGE, EXIT_FAILURES}
        /\ Pumped => (exitCode = EXIT_FAILURES <=> Failed # {})
        /\ Pumped => (exitCode = EXIT_OK <=> Succeeded = Jobs)
        /\ exitCode = EXIT_USAGE <=> ~Pumped
        /\ exitCode = EXIT_USAGE => (ParseArgs(argv, fileData).exit \/ ioFault)

\* three locators at concurrency 2, one of them failed: status 2
C5_Witness ==
    /\ Reported
    /\ Len(args.urls) = 3
    /\ args.concurrent = 2
    /\ Cardinality(Failed) = 1
    /\ exitCode = EXIT_FAILURES

(* C6: a job's terminal Failure never aborts the scheduler or its siblings:
   the run goes on, waiting locators are still admitted and every entry reaches
   its outcome; for [A, B], concurrency 1, retries 1, A always failing and B
   succeeding, B runs after A, the failure list is [A] and the status is 2 *)
C6_FailureDoesNotAbort ==
    Failed # {} =>
        /\ pc \in {"draining", "exited"}
        /\ pc = "exited" => (Finished = Jobs /\ exitCode = EXIT_FAILURES)
        /\ (pc # "exited" /\ Len(queue) > 0) => active > 0
        /\ ( /\ pc = "exited"
             /\ args.urls = <<"A", "B">>
             /\ args.concurrent = 1
             /\ args.retries = 1
             /\ 1 \in Failed
             /\ jobs[2].hist = <<"ok">> )
           => (failures = <<"A">> /\ jobs[1].calls = 2 /\ jobs[2].calls = 1)

\* the scenario of the claim has run to its end
C6_Witness ==
    /\ pc = "exited"
    /\ args.urls = <<"A", "B">>
    /\ args.concurrent = 1
    /\ args.retries = 1
    /\ 1 \in Failed
    /\ 2 \in Succeeded
    /\ exitCode = EXIT_FAILURES

(* C7: a configured concurrency of 0 or less is a configuration error: the
   process exits with status 1 before any job is admitted and never enters the
   drain loop with such a value *)
C7_NonPositiveConcurrencyRejected ==
    (pc # "start" /\ ~ioFault /\ HasFlag("--concurrent") /\ args.concurrent <= 0) =>
        /\ pc # "draining"
        /\ pc = "exited" => exitCode = EXIT_USAGE

\* no positional locator and no non-blank line in the batch file
C8_NoLocatorResolved ==
    /\ \A k \in 3..Len(argv) : argv[k] \notin Locators
    /\ HasFlag("--fromFile") => \A k \in 1..Len(fileData) : fileData[k] \in {"", " "}

(* C8: when no locator is resolved the process exits with status 1 and no job
   is ever admitted: no prompt, no pump, no external downloader call *)
C8_NoLocatorExitsWithUsage ==
    (pc # "start" /\ C8_NoLocatorResolved) =>
        /\ pc = "exited"
        /\ exitCode = EXIT_USAGE
        /\ prompts = 0
        /\ linesRead = 0
        /\ ~Pumped
        /\ active = 0
        /\ \A i \in Jobs : jobs[i].calls = 0

\* a batch file of blank lines only and no positional locator
C8_Witness ==
    /\ pc = "exited"
    /\ exitCode = EXIT_USAGE
    /\ HasFlag("--fromFile")
    /\ ~HasFlag("--bogus")
    /\ ~ioFault
    /\ args.urls = <<>>

\* locators wait while no job is in flight
C9_Stalled == pc = "draining" /\ Len(queue) > 0 /\ active = 0

\* the reporting step was reached with nothing left
C9_Drained == pc = "exited" /\ Pumped /\ Len(queue) = 0 /\ active = 0 /\ Finished = Jobs

(* C9: for a non-empty list, C >= 1 and retries >= 0, when every downloader
   call returns and every timer fires, run() reaches the reporting step with an
   empty queue and active = 0; it never stalls with locators queued and no job
   in flight *)
C9_RunDrains ==
    /\ [](args.concurrent >= 1 => ~C9_Stalled)
    /\ (pc = "draining" /\ args.concurrent >= 1) ~> C9_Drained

\* a run with more locators than slots and a retried job was drained
C9_Witness ==
    /\ C9_Drained
    /\ Len(args.urls) > args.concurrent
    /\ args.concurrent >= 1
    /\ \E i \in Jobs : jobs[i].calls >= 2

\* one of the three flags that skip the menu is on the command line
C10_Bypassed == HasFlag("--format") \/ HasFlag("--audio") \/ HasFlag("--noPrompt")

(* C10: the resolver shows the prompt iff none of --format, --audio and
   --noPrompt was given; with any of them no prompt is shown and no line is
   read; when the prompt is shown exactly one line is read before the
   configuration is resolved *)
C10_PromptIffNoBypassFlag ==
    /\ prompts <= 1 /\ linesRead <= prompts
    /\ pc = "awaitingChoice" <=> (prompts = 1 /\ linesRead = 0)
    /\ pc \in {"awaitingChoice", "resolved", "draining"} \/ Pumped =>
         /\ prompts = 1 <=> ~C10_Bypassed
         /\ C10_Bypassed => linesRead = 0
         /\ (~C10_Bypassed /\ pc # "awaitingChoice") => linesRead = 1

\* the prompt was skipped by --audio alone, and jobs were admitted
C10_Witness ==
    /\ HasFlag("--audio") /\ ~HasFlag("--format") /\ ~HasFlag("--noPrompt")
    /\ prompts = 0
    /\ Pumped

\* every option bag handed to the external downloader so far
Bags == UNION {{jobs[i].bags[k] : k \in 1..Len(jobs[i].bags)} : i \in Jobs}

\* the value that follows --format on the command line
FormatArg == argv[(CHOOSE k \in 3..Len(argv) : argv[k] = "--format") + 1]

(* C11: given --format X with any combination of the other flags, the selector
   handed to the external downloader for every job equals X; given --noPrompt
   and neither --format nor --audio, it is the 1080p-capped default *)
C11_FormatFlagSetsSelector ==
    \A b \in Bags :
        /\ HasFlag("--format") =>
             ("format" \in DOMAIN b /\ b.format = FormatArg)
        /\ (~HasFlag("--format") /\ ~HasFlag("--audio") /\ HasFlag("--noPrompt")) =>
             ("format" \in DOMAIN b /\ b.format = FORMAT_1080)

(* C11 as amended: given --format X and no --audio, the selector handed over
   for every job equals X; given --format X together with --audio, audio
   extraction is requested and no format selector is handed over; given
   --noPrompt and neither --format nor --audio, it is the 1080p-capped default *)
C11_FormatFlagSetsSelectorUnlessAudio ==
    \A b \in Bags :
        /\ (HasFlag("--format") /\ ~HasFlag("--audio")) =>
             ("format" \in DOMAIN b /\ b.format = FormatArg /\ "extractAudio" \notin DOMAIN b)
        /\ (HasFlag("--format") /\ HasFlag("--audio")) =>
             ("format" \notin DOMAIN b /\ "extractAudio" \in DOMAIN b)
        /\ (~HasFlag("--format") /\ ~HasFlag("--audio") /\ HasFlag("--noPrompt")) =>
             ("format" \in DOMAIN b /\ b.format = FORMAT_1080)

\* a job retried under --format X: each of its calls was handed X
C11_Witness ==
    /\ HasFlag("--format")
    /\ \E b \in Bags : "format" \in DOMAIN b /\ b.format = "X"
    /\ \E i \in Jobs : jobs[i].calls >= 2

(* C12: for every combination of --noGeoBypass and --geo <CC>, the option bag
   carries geo-bypass either as the enable flag or as a country code, never
   both, and never a country code together with the disable flag *)
C12_GeoBypassExclusive ==
    \A b \in Bags :
        /\ ~("geoBypass" \in DOMAIN b /\ "geoBypassCountry" \in DOMAIN b)
        /\ ~("noGeoBypass" \in DOMAIN b /\ "geoBypassCountry" \in DOMAIN b)
        /\ ~("geoBypass" \in DOMAIN b /\ "noGeoBypass" \in DOMAIN b)

\* the positional locators of the command line, in order
Positionals == SelectSeq(SubSeq(argv, 3, Len(argv)), LAMBDA t : t \in Locators)

\* the locators of the batch file, in order
FileLocators ==
    IF HasFlag("--fromFile")
    THEN [k \in 1..Len(SelectSeq(fileData, LAMBDA l : l = " B")) |-> "B"]
    ELSE <<>>

(* C13: jobs start in submission order, positional arguments first and then
   the lines of the batch file: for entries i < j the first attempt for i is
   made before the first attempt for j, whatever the order of completions *)
C13_StartsInSubmissionOrder ==
    Pumped =>
        /\ args.urls = Positionals \o FileLocators
        /\ \A i, j \in Jobs :
             (i < j /\ jobs[j].starts > 0) =>
                 /\ jobs[i].starts > 0
                 /\ jobs[i].order < jobs[j].order
        /\ \A i \in Jobs : jobs[i].starts > 0 <=> jobs[i].order > 0

\* the second entry finished first, the third started while the first still runs
C13_Witness ==
    /\ Pumped
    /\ Len(args.urls) = 3
    /\ HasFlag("--fromFile")
    /\ jobs[2].st = "ok"
    /\ jobs[1].st = "calling"
    /\ jobs[3].order = 3

(* C14: the pool refills itself: when a job reaches its terminal outcome while
   the queue is not empty, the next locator is admitted in that same step,
   whatever the other in-flight jobs do; so after the initial pump, for C >= 1,
   a non-empty queue implies active = C *)
C14_SelfRefilling ==
    /\ []((Pumped /\ args.concurrent >= 1 /\ Len(queue) > 0) => active = args.concurrent)
    /\ [][ \A i \in Jobs :
             ( /\ args.concurrent >= 1
               /\ jobs[i].outcomes = 0
               /\ jobs'[i].outcomes = 1
               /\ Len(queue) > 0 )
             => /\ queue' = Tail(queue)
                /\ active' = active
                /\ jobs[Head(queue)].st = "queued"
                /\ jobs'[Head(queue)].st = "calling" ]_vars

\* the third locator was admitted at a completion while another job still runs
C14_Witness ==
    /\ Pumped
    /\ Len(args.urls) = 3
    /\ args.concurrent = 2
    /\ Cardinality(Finished) = 1
    /\ jobs[3].st = "calling"
    /\ active = 2

(* C15: the run reports and exits with status 0 or 2 only when the queue is
   empty, active = 0, no external downloader call is in flight and no retry
   timer is pending *)
C15_ReportsOnlyWhenDrained ==
    (pc = "exited" /\ Pumped) =>
        /\ exitCode \in {EXIT_OK, EXIT_FAILURES}
        /\ Len(queue) = 0
        /\ active = 0
        /\ \A i \in Jobs :
             /\ jobs[i].inflight = 0
             /\ jobs[i].delay = 0
             /\ jobs[i].st \in {"ok", "failed"}

\* a run with a retry delay behind it has reported
C15_Witness ==
    /\ pc = "exited"
    /\ Len(args.urls) >= 2
    /\ \E i \in Jobs : jobs[i].waits # <<>>
    /\ \E i \in Jobs : jobs[i].st = "ok"

\* the number of failed calls in a history
RECURSIVE FailCount(_)
FailCount(h) ==
    IF h = <<>> THEN 0
    ELSE (IF Head(h) = "fail" THEN 1 ELSE 0) + FailCount(Tail(h))

\* the number of entries of a list equal to u
RECURSIVE CountOf(_, _)
CountOf(f, u) ==
    IF f = <<>> THEN 0
    ELSE (IF Head(f) = u THEN 1 ELSE 0) + CountOf(Tail(f), u)

(* C16: within one job the attempts are strictly sequential: attempt k+1 of a
   queue entry starts only after attempt k returned a failure and the backoff
   delay after it elapsed, so an entry never has two external downloader calls
   in flight *)
C16_AttemptsSequential ==
    /\ [](\A i \in Jobs :
            /\ jobs[i].inflight \in {0, 1}
            /\ jobs[i].inflight = 1 <=> jobs[i].st = "calling"
            /\ jobs[i].st = "calling" =>
                 /\ jobs[i].calls = jobs[i].attempt
                 /\ Len(jobs[i].hist) = jobs[i].attempt - 1
                 /\ AllFail(jobs[i].hist)
            /\ jobs[i].st = "backoff" => jobs[i].delay > 0)
    /\ [][ \A i \in Jobs :
             (jobs[i].calls >= 1 /\ jobs'[i].calls # jobs[i].calls) =>
                 /\ jobs'[i].calls = jobs[i].calls + 1
                 /\ jobs[i].st = "backoff"
                 /\ jobs[i].inflight = 0
                 /\ jobs[i].hist[Len(jobs[i].hist)] = "fail" ]_vars

\* a third attempt is in flight after two failures and two delays
C16_Witness ==
    \E i \in Jobs :
        /\ jobs[i].st = "calling"
        /\ jobs[i].attempt = 3
        /\ jobs[i].hist = <<"fail", "fail">>
        /\ Len(jobs[i].waits) = 2

(* C17: a job holds its slot from admission to its terminal outcome, failed
   attempts and backoff waits included: active equals the number of entries
   popped and not yet at Success or Failure and is never negative, and no
   locator is admitted merely because an in-flight job waits in backoff *)
C17_SlotHeldUntilOutcome ==
    /\ [](/\ active = Cardinality(InFlight)
          /\ active >= 0
          /\ Pumped => active = Len(args.urls) - Len(queue) - Cardinality(Finished))
    /\ [][ Len(queue') < Len(queue) =>
             \E i \in Jobs : jobs[i].outcomes = 0 /\ jobs'[i].outcomes = 1 ]_vars

\* a job waits in backoff, the pool is full and a locator still waits
C17_Witness ==
    /\ \E i \in Jobs : jobs[i].st = "backoff"
    /\ active = args.concurrent
    /\ Len(queue) > 0

(* C18: after the failure of attempt a <= retries the wrapper waits exactly
   1500 * a ms before attempt a + 1 (1500, 3000, ...); there is no delay before
   the first attempt or after the final failed attempt *)
C18_LinearBackoff ==
    \A i \in Jobs :
        /\ jobs[i].waits = [k \in 1..Len(jobs[i].waits) |-> 1500 * k]
        /\ Len(jobs[i].waits) <= args.retries
        /\ Len(jobs[i].waits) =
             (IF jobs[i].st = "failed" THEN args.retries ELSE FailCount(jobs[i].hist))
        /\ jobs[i].st = "backoff" =>
             (jobs[i].delay = 1500 * jobs[i].attempt /\ jobs[i].attempt <= args.retries)
        /\ jobs[i].st # "backoff" => jobs[i].delay = 0
        /\ jobs[i].st = "calling" => Len(jobs[i].waits) = jobs[i].attempt - 1

\* a job failed for good after waiting 1500 and then 3000 ms
C18_Witness ==
    \E i \in Jobs :
        /\ jobs[i].st = "failed"
        /\ jobs[i].waits = <<1500, 3000>>
        /\ Len(jobs[i].hist) = 3

(* C19: at completion the failure list holds exactly the locators of the jobs
   that ended in Failure, one entry per failed job and none for a job that
   ended in Success; a locator is appended only at the job's terminal failure,
   never at a failed attempt that is retried *)
C19_FailureListExact ==
    /\ Len(failures) = Cardinality(Failed)
    /\ \A u \in {args.urls[i] : i \in 1..Len(args.urls)} :
         CountOf(failures, u) = Cardinality({i \in Failed : args.urls[i] = u})
    /\ \A k \in 1..Len(failures) : \E i \in Failed : failures[k] = args.urls[i]

\* a duplicated locator failed twice after retries, another locator succeeded
C19_Witness ==
    /\ pc = "exited"
    /\ failures = <<"A", "A">>
    /\ \E i \in Succeeded : args.urls[i] = "B" /\ Len(jobs[i].hist) = 2

(* C20: option resolution, the prompt included, is complete before the first
   job is admitted, and from then on no scheduler step, attempt, retry or
   completion handler changes the shared configuration: every attempt of every
   job is built from the same resolved configuration *)
C20_ConfigFrozen ==
    /\ []((\E i \in Jobs : jobs[i].calls > 0) =>
            /\ pc \in {"draining", "exited"}
            /\ linesRead = prompts)
    /\ [](\A b \in Bags : b = YtdlpArgs(args))
    /\ [][ (pc \in {"resolved", "draining", "exited"}) => args' = args ]_vars

\* audio-only was chosen at the prompt and a job was retried under it
C20_Witness ==
    /\ linesRead = 1
    /\ args.audioOnly
    /\ \E i \in Jobs :
         /\ Len(jobs[i].bags) >= 2
         /\ \A k \in 1..Len(jobs[i].bags) : "extractAudio" \in DOMAIN jobs[i].bags[k]

====
